---- MODULE Spec2Model ----
(***************************************************************************)
(* Producer and consumer sessions of go-pulsar (producer.go, consumer.go)  *)
(* above one shared connection.  Every exported method is a call made by   *)
(* a caller thread; a call is split into steps at the points where it      *)
(* touches shared state: the atomic draw of the sequence counter and each  *)
(* call on the connection.  The producer name is read with the draw and    *)
(* written with the receive of Open: no Open overlaps a call that touches  *)
(* the name of the same session (see Overlaps).                            *)
(*                                                                         *)
(* The connection and the broker behind it (conn.Send, conn.Receive, the   *)
(* topic lookup) are collaborators whose code is not part of the two       *)
(* source files.  They are modelled from the specification: a send or a    *)
(* receive may fail, a delivered request is answered in request order, and *)
(* the broker pushes a message only against a flow credit.                 *)
(***************************************************************************)
EXTENDS Integers, Sequences, FiniteSets, TLC

\* ---------------------------------------------------------------- bounds
NumThreads == 2
MaxCalls == 3
MaxBatch == 2

\* ------------------------------------------------------------- constants
defaultNumMessages == 1

\* two sessions on the one connection
Producers == {1, 2}
Threads == 1 .. NumThreads

RequestIDs == {1}
ConsumerIDs == {1}
Payloads == {"", "a"}
Names == {"p-1", "p-2"}
Permits == {1}
SubTypes == {"Exclusive", "Shared"}
AckTypes == {"Individual", "Cumulative"}

RECURSIVE BatchOfLen(_)
BatchOfLen(k) == IF k = 0 THEN << >> ELSE Append(BatchOfLen(k - 1), "a")

\* a command.BatchMessage is a slice: nil, or a list of payload entries
NilBatch == [isNil |-> TRUE, items |-> << >>]
Batches == {[isNil |-> FALSE, items |-> BatchOfLen(k)] : k \in 0 .. MaxBatch}

VARIABLES
    SequenceID, Name, Topic, ID,        \* Producer fields, per session
    handed, flows,                      \* history of the requests handed over
    replies, credits,                   \* pending replies, broker credits
    pc, op, arg, sequenceID, request,   \* caller threads: position, locals
    trace, err, result,                 \* connection calls made, return values
    drawn,                              \* history: IDs drawn, per session
    granted,                            \* history: names an Open was answered
    calls                               \* number of calls started

prodVars == <<SequenceID, Name, Topic, ID>>
connVars == <<handed, flows, replies, credits>>
vars == <<SequenceID, Name, Topic, ID, handed, flows, replies, credits,
          pc, op, arg, sequenceID, request, trace, err, result, drawn, granted,
          calls>>

\* ------------------------------------------------------------ values
NilErr == [class |-> "nil", msg |-> "", kind |-> ""]
NoArg == [p |-> 0]
NoRequest == [cmd |-> "NONE"]
NoResult == [tag |-> "none"]
NoReply == [kind |-> "NONE", name |-> "", payload |-> ""]

\* what the collaborators return when they fail
TransportErr == [class |-> "transport", msg |-> "", kind |-> ""]
LookupErr == [class |-> "lookup", msg |-> "", kind |-> ""]

\* errors.Wrap(err, msg): the cause keeps its class, msg names the operation
Wrap(cause, msg) == [class |-> cause.class, msg |-> msg, kind |-> ""]

\* errors.Errorf("unknown command type: %v", *t)
UnknownCommandType(kind) ==
    [class |-> "protocol", msg |-> "unknown command type", kind |-> kind]

\* ------------------------------------------------- requests (pure builders)
\* producer.go:52-56  CommandProducer
ProducerRequest(p, requestId) ==
    [cmd |-> "PRODUCER", topic |-> Topic[p], producerId |-> ID[p],
     requestId |-> requestId]

\* producer.go:97  atomic.AddUint64(&p.SequenceID, 1): the new counter value.
\* The counter is a uint64 that starts at 0 and grows by one per call; it
\* stays below MaxCalls here, far from the wrap at 2^64.
AddUint64(v, delta) == v + delta

\* SendRequest whose metadata leaves the producer name unset
SendRequestUnnamed(producerId, seq, name, payload) ==
    [cmd |-> "SEND", producerId |-> producerId, sequenceId |-> seq,
     numMessages |-> defaultNumMessages,
     meta |-> [producerName |-> "", sequenceId |-> seq,
               batchMode |-> FALSE, numMessagesInBatch |-> 0],
     payload |-> payload, batch |-> NilBatch]

\* SendRequest whose metadata carries the counter after the add
SendRequestMetaAfterAdd(producerId, seq, name, payload) ==
    [cmd |-> "SEND", producerId |-> producerId, sequenceId |-> seq,
     numMessages |-> defaultNumMessages,
     meta |-> [producerName |-> name, sequenceId |-> AddUint64(seq, 1),
               batchMode |-> FALSE, numMessagesInBatch |-> 0],
     payload |-> payload, batch |-> NilBatch]

\* producer.go:98-112  CommandSend + MessageMetadata + payload of SendSend
SendRequest(producerId, seq, name, payload) ==
    [cmd |-> "SEND", producerId |-> producerId, sequenceId |-> seq,
     numMessages |-> defaultNumMessages,
     meta |-> [producerName |-> name, sequenceId |-> seq,
               batchMode |-> FALSE, numMessagesInBatch |-> 0],
     payload |-> payload, batch |-> NilBatch]

\* BatchRequest with the command's count left at the single-send default
BatchRequestDefaultCount(producerId, seq, name, batchMessage) ==
    [cmd |-> "SEND", producerId |-> producerId, sequenceId |-> seq,
     numMessages |-> defaultNumMessages,
     meta |-> [producerName |-> name, sequenceId |-> seq,
               batchMode |-> TRUE,
               numMessagesInBatch |-> Len(batchMessage.items)],
     payload |-> "", batch |-> batchMessage]

\* producer.go:127-145  CommandSend + MessageMetadata + batch of SendBatchSend.
\* int32(len(batchMessage)) keeps every length below 2^31.
BatchRequest(producerId, seq, name, batchMessage) ==
    LET numMessages == Len(batchMessage.items) IN
    [cmd |-> "SEND", producerId |-> producerId, sequenceId |-> seq,
     numMessages |-> numMessages,
     meta |-> [producerName |-> name, sequenceId |-> seq,
               batchMode |-> TRUE, numMessagesInBatch |-> numMessages],
     payload |-> "", batch |-> batchMessage]

\* producer.go:174-177  CommandCloseProducer
CloseProducerRequest(p, requestId) ==
    [cmd |-> "CLOSE_PRODUCER", producerId |-> ID[p], requestId |-> requestId]

\* consumer.go:25-31  CommandSubscribe: SubType is the constant Shared
SubscribeRequest(topic, subscription, subType, consumerId, requestId) ==
    [cmd |-> "SUBSCRIBE", topic |-> topic, subscription |-> subscription,
     subType |-> "Shared", consumerId |-> consumerId, requestId |-> requestId]

\* consumer.go:46-49  CommandFlow
FlowRequest(consumerId, messagePermits) ==
    [cmd |-> "FLOW", consumerId |-> consumerId,
     messagePermits |-> messagePermits]

\* consumer.go:83-88  CommandAck
AckRequest(consumerId, ackType) ==
    [cmd |-> "ACK", consumerId |-> consumerId, ackType |-> ackType]

\* consumer.go:103-106  CommandCloseConsumer
CloseConsumerRequest(consumerId, requestId) ==
    [cmd |-> "CLOSE_CONSUMER", consumerId |-> consumerId,
     requestId |-> requestId]

\* ------------------------------------------------- replies (pure decoders)
\* ProducerSuccessOf without the switch: any reply is taken as the success
ProducerSuccessAnyKind(res) == [success |-> res.name, err |-> NilErr]

\* producer.go:76-86  the switch of ReceiveProducerSuccess
ProducerSuccessOf(res) ==
    IF res.kind = "PRODUCER_SUCCESS"
    THEN [success |-> res.name, err |-> NilErr]
    ELSE [success |-> "", err |-> UnknownCommandType(res.kind)]

\* producer.go:164  GetSendReceipt(): nil unless the reply is a send receipt
SendReceiptOf(res) ==
    [tag |-> "receipt", nil |-> (res.kind # "SEND_RECEIPT"), payload |-> ""]

\* consumer.go:68-69  GetMessage() is nil unless the reply is a message;
\* command.NewMessage wraps it with the payload
NewMessage(res) ==
    [tag |-> "message", nil |-> (res.kind # "MESSAGE"), payload |-> res.payload]

\* ------------------------------------------------- connection and broker
\* The broker's answer to a delivered request: a create-producer command is
\* answered by a producer success carrying a name, a send by a send receipt;
\* the other commands have no reply.
BrokerReplies(req) ==
    IF req.cmd = "PRODUCER"
    THEN {<<[kind |-> "PRODUCER_SUCCESS", name |-> n, payload |-> ""]>> :
              n \in Names}
    ELSE IF req.cmd = "SEND"
    THEN {<<[kind |-> "SEND_RECEIPT", name |-> "", payload |-> ""]>>}
    ELSE {<< >>}

\* Flow credits are broker-owned: a delivered flow command adds its permits.
BrokerCredits(req) ==
    IF req.cmd = "FLOW"
    THEN [credits EXCEPT ![req.consumerId] = @ + req.messagePermits]
    ELSE credits

\* The history of the connection: per producer session, the sequence IDs of
\* the send requests in the order they were handed to the connection; per
\* consumer, the number of flow commands handed to it.
Handed(req) ==
    IF req.cmd = "SEND"
    THEN [handed EXCEPT ![CHOOSE p \in Producers : ID[p] = req.producerId] =
              Append(@, req.sequenceId)]
    ELSE handed
Flows(req) ==
    IF req.cmd = "FLOW" THEN [flows EXCEPT ![req.consumerId] = @ + 1]
    ELSE flows

\* The names the broker has granted a session: the names carried by the
\* producer-success replies that an Open on the session received, in order.
Granted(p, res) ==
    IF res.kind = "PRODUCER_SUCCESS"
    THEN [granted EXCEPT ![p] = Append(@, res.name)]
    ELSE granted

\* conn.Send(request): the request is handed to the connection; it is
\* delivered (ok) or the send fails.
ConnSend(req, ok) ==
    /\ handed' = Handed(req)
    /\ flows' = Flows(req)
    /\ IF ok
       THEN /\ \E rs \in BrokerReplies(req) : replies' = replies \o rs
            /\ credits' = BrokerCredits(req)
       ELSE UNCHANGED <<replies, credits>>

\* conn.Receive(): blocks while no reply is pending, yields the oldest
\* pending reply (ok), or fails.
CanReceive(ok) == ok => replies # << >>
Received(ok) == IF ok THEN Head(replies) ELSE NoReply
ConnReceive(ok) ==
    /\ replies' = IF ok THEN Tail(replies) ELSE replies
    /\ UNCHANGED <<handed, flows, credits>>

\* one entry of a call's record of the connection calls it made
Called(call, ok, res) == [call |-> call, ok |-> ok, res |-> res]

\* ------------------------------------------------- caller threads
InProgress(t) == pc[t] \notin {"idle", "ret"}

\* A new call starts on a thread that is not inside a call.  Caller threads
\* have no identity in the code, so the lowest-numbered free thread takes it.
CanCall(t) ==
    /\ \A u \in Threads : pc[u] # "ret"
    /\ ~InProgress(t)
    /\ calls < MaxCalls
    /\ \A u \in Threads : u < t => InProgress(u)

\* Thread t is at label l inside a call.  A call that has reached its return
\* hands its results to the caller before any other step is taken: the
\* return is a step of the caller alone.
At(t, l) == pc[t] = l /\ \A u \in Threads : pc[u] # "ret"

\* Producer.Name is a plain field: Open writes it (producer.go:39), SendSend
\* and SendBatchSend read it (106, 136), with no lock or atomic.  A Go
\* program must serialise such accesses, so callers keep an Open on a
\* session apart from the other calls on that session that touch the name;
\* concurrent SendSend/SendBatchSend calls on one session are the supported
\* concurrent use.  Overlaps(t, p, ops): another thread is inside a call of
\* one of ops on session p.
Overlaps(t, p, ops) ==
    \E u \in Threads \ {t} :
        InProgress(u) /\ op[u] \in ops /\ arg[u].p = p

\* the locals and the position of thread t after a step
Step(t, l, o, a, sid, req, tr, e, r) ==
    /\ pc' = [pc EXCEPT ![t] = l]
    /\ op' = [op EXCEPT ![t] = o]
    /\ arg' = [arg EXCEPT ![t] = a]
    /\ sequenceID' = [sequenceID EXCEPT ![t] = sid]
    /\ request' = [request EXCEPT ![t] = req]
    /\ trace' = [trace EXCEPT ![t] = tr]
    /\ err' = [err EXCEPT ![t] = e]
    /\ result' = [result EXCEPT ![t] = r]

\* a later step of the call thread t is in: op, arg, sequenceID stay
Continue(t, l, req, entry, e, r) ==
    Step(t, l, op[t], arg[t], sequenceID[t], req, Append(trace[t], entry), e, r)

\* ------------------------------------------------- Producer.Open
\* CreateProducerAfterLookup without the return on a failed lookup
CreateProducerLookupIgnored(ok) == "open_send"

\* producer.go:47-50  CreateProducer returns when the lookup failed
CreateProducerAfterLookup(ok) == IF ok THEN "open_send" ELSE "ret"

\* OpenAfterCreate without the return on a failed send
OpenCreateIgnored(ok) == "open_recv"

\* OpenAfterCreate returning before the receive step
OpenWithoutReceive(ok) == "ret"

\* producer.go:24-29 and 58-61  Open returns when CreateProducer failed
OpenAfterCreate(ok) == IF ok THEN "open_recv" ELSE "ret"

\* OpenName that keeps a name once it is set
OpenNameOnce(old, success, e) ==
    IF e = NilErr /\ old = "" THEN success ELSE old

\* producer.go:33-39  Open stores the name unless the receive step failed
OpenName(old, success, e) == IF e = NilErr THEN success ELSE old

\* Open -> CreateProducer: SetLookupTopicConnection(p.Topic, requestId, false)
CreateProducerLookup(t) ==
    /\ CanCall(t)
    /\ \E p \in Producers, requestId \in RequestIDs, ok \in BOOLEAN :
        /\ ~Overlaps(t, p, {"open", "send", "sendBatch"})
        /\ Step(t, CreateProducerAfterLookup(ok), "open",
                [p |-> p, requestId |-> requestId], 0, NoRequest,
                <<Called("lookup", ok, NoReply)>>,
                IF ok THEN NilErr
                ELSE Wrap(LookupErr, "failed to set lookup topic connection"),
                NoResult)
    /\ calls' = calls + 1
    /\ UNCHANGED <<prodVars, connVars, drawn, granted>>

\* Open -> CreateProducer: conn.Send of the create-producer command
CreateProducerSend(t) ==
    /\ At(t, "open_send")
    /\ \E ok \in BOOLEAN :
        LET req == ProducerRequest(arg[t].p, arg[t].requestId) IN
        /\ ConnSend(req, ok)
        /\ Continue(t, OpenAfterCreate(ok), req, Called("send", ok, NoReply),
                    IF ok THEN NilErr
                    ELSE Wrap(TransportErr, "failed to send producer command"),
                    NoResult)
    /\ UNCHANGED <<prodVars, drawn, granted, calls>>

\* Open -> ReceiveProducerSuccess: conn.Receive, the switch on the reply's
\* kind, and Open's store of the name
ReceiveProducerSuccess(t) ==
    /\ At(t, "open_recv")
    /\ \E ok \in BOOLEAN :
        /\ CanReceive(ok)
        /\ LET res == Received(ok)
               out == IF ok THEN ProducerSuccessOf(res)
                      ELSE [success |-> "",
                            err |-> Wrap(TransportErr,
                                "failed to receive producerSuccess command")]
               p == arg[t].p
           IN /\ ConnReceive(ok)
              /\ Name' = [Name EXCEPT ![p] = OpenName(@, out.success, out.err)]
              /\ granted' = Granted(p, res)
              /\ Continue(t, "ret", request[t], Called("recv", ok, res),
                          out.err, NoResult)
    /\ UNCHANGED <<SequenceID, Topic, ID, drawn, calls>>

\* ------------------------------------------------- Producer.SendSend
\* DrawnID without the "- 1": the call takes the counter after the add
DrawnIDAfterAdd(counter) == AddUint64(counter, 1)

\* producer.go:97  the ID a call draws: the counter after the add, minus one
DrawnID(counter) == AddUint64(counter, 1) - 1

\* SendSendDraw on one counter shared by all the sessions
SendSendDrawShared(t) ==
    /\ CanCall(t)
    /\ \E p \in Producers, payload \in Payloads :
        /\ ~Overlaps(t, p, {"open"})
        /\ SequenceID' = [q \in Producers |-> AddUint64(SequenceID[q], 1)]
        /\ drawn' = [drawn EXCEPT ![p] = Append(@, DrawnID(SequenceID[p]))]
        /\ Step(t, "send_conn", "send", [p |-> p, payload |-> payload],
                DrawnID(SequenceID[p]),
                SendRequest(ID[p], DrawnID(SequenceID[p]), Name[p], payload),
                << >>, NilErr, NoResult)
    /\ calls' = calls + 1
    /\ UNCHANGED <<Name, Topic, ID, connVars, granted>>

\* producer.go:97-112  the atomic draw, then the command and the metadata
SendSendDraw(t) ==
    /\ CanCall(t)
    /\ \E p \in Producers, payload \in Payloads :
        /\ ~Overlaps(t, p, {"open"})
        /\ SequenceID' = [SequenceID EXCEPT ![p] = AddUint64(@, 1)]
        /\ drawn' = [drawn EXCEPT ![p] = Append(@, DrawnID(SequenceID[p]))]
        /\ Step(t, "send_conn", "send", [p |-> p, payload |-> payload],
                DrawnID(SequenceID[p]),
                SendRequest(ID[p], DrawnID(SequenceID[p]), Name[p], payload),
                << >>, NilErr, NoResult)
    /\ calls' = calls + 1
    /\ UNCHANGED <<Name, Topic, ID, connVars, granted>>

\* SendSendConn that also waits for the receipt of a delivered request
SendSendConnAwaitsReceipt(t) ==
    /\ At(t, "send_conn")
    /\ \E ok \in BOOLEAN :
        /\ ConnSend(request[t], ok)
        /\ Step(t, "ret", op[t], arg[t], sequenceID[t], request[t],
                IF ok THEN <<Called("send", ok, NoReply),
                             Called("recv", FALSE, NoReply)>>
                ELSE <<Called("send", ok, NoReply)>>,
                Wrap(TransportErr, "failed to send 'send' command"),
                NoResult)
    /\ UNCHANGED <<prodVars, drawn, granted, calls>>

\* SendSendConn that gives the ID back when the send fails
SendSendConnRollsBack(t) ==
    /\ At(t, "send_conn")
    /\ \E ok \in BOOLEAN :
        /\ ConnSend(request[t], ok)
        /\ Continue(t, "ret", request[t], Called("send", ok, NoReply),
                    IF ok THEN NilErr
                    ELSE Wrap(TransportErr, "failed to send 'send' command"),
                    NoResult)
        /\ SequenceID' = IF ok THEN SequenceID
                         ELSE [SequenceID EXCEPT ![arg[t].p] = @ - 1]
    /\ UNCHANGED <<Name, Topic, ID, drawn, granted, calls>>

\* producer.go:113-119  conn.Send of the request, then return
SendSendConn(t) ==
    /\ At(t, "send_conn")
    /\ \E ok \in BOOLEAN :
        /\ ConnSend(request[t], ok)
        /\ Continue(t, "ret", request[t], Called("send", ok, NoReply),
                    IF ok THEN NilErr
                    ELSE Wrap(TransportErr, "failed to send 'send' command"),
                    NoResult)
    /\ UNCHANGED <<prodVars, drawn, granted, calls>>

\* ------------------------------------------------- Producer.SendBatchSend
\* producer.go:126-145
SendBatchSendDraw(t) ==
    /\ CanCall(t)
    /\ \E p \in Producers, batchMessage \in Batches :
        /\ ~Overlaps(t, p, {"open"})
        /\ SequenceID' = [SequenceID EXCEPT ![p] = AddUint64(@, 1)]
        /\ drawn' = [drawn EXCEPT ![p] = Append(@, DrawnID(SequenceID[p]))]
        /\ Step(t, "batch_conn", "sendBatch",
                [p |-> p, batchMessage |-> batchMessage],
                DrawnID(SequenceID[p]),
                BatchRequest(ID[p], DrawnID(SequenceID[p]), Name[p],
                             batchMessage),
                << >>, NilErr, NoResult)
    /\ calls' = calls + 1
    /\ UNCHANGED <<Name, Topic, ID, connVars, granted>>

\* producer.go:146-152
SendBatchSendConn(t) ==
    /\ At(t, "batch_conn")
    /\ \E ok \in BOOLEAN :
        /\ ConnSend(request[t], ok)
        /\ Continue(t, "ret", request[t], Called("send", ok, NoReply),
                    IF ok THEN NilErr
                    ELSE Wrap(TransportErr,
                              "failed to send batch 'send' command"),
                    NoResult)
    /\ UNCHANGED <<prodVars, drawn, granted, calls>>

\* ReceiveSendReceipt that rejects a reply that is no send receipt
ReceiveSendReceiptValidated(t) ==
    /\ CanCall(t)
    /\ \E p \in Producers, ok \in BOOLEAN :
        /\ CanReceive(ok)
        /\ ConnReceive(ok)
        /\ Step(t, "ret", "receiveSendReceipt", [p |-> p], 0, NoRequest,
                <<Called("recv", ok, Received(ok))>>,
                IF ~ok
                THEN Wrap(TransportErr, "failed to receive sendReceipt command")
                ELSE IF Received(ok).kind = "SEND_RECEIPT" THEN NilErr
                ELSE UnknownCommandType(Received(ok).kind),
                IF ok THEN SendReceiptOf(Received(ok)) ELSE NoResult)
    /\ calls' = calls + 1
    /\ UNCHANGED <<prodVars, drawn, granted>>

\* ------------------------------------------------- Producer.ReceiveSendReceipt
\* producer.go:155-169
ReceiveSendReceipt(t) ==
    /\ CanCall(t)
    /\ \E p \in Producers, ok \in BOOLEAN :
        /\ CanReceive(ok)
        /\ ConnReceive(ok)
        /\ Step(t, "ret", "receiveSendReceipt", [p |-> p], 0, NoRequest,
                <<Called("recv", ok, Received(ok))>>,
                IF ok THEN NilErr
                ELSE Wrap(TransportErr,
                          "failed to receive sendReceipt command"),
                IF ok THEN SendReceiptOf(Received(ok)) ELSE NoResult)
    /\ calls' = calls + 1
    /\ UNCHANGED <<prodVars, drawn, granted>>

\* CloseProducer that waits for a reply to a delivered close command
CloseProducerAwaitsReply(t) ==
    /\ CanCall(t)
    /\ \E p \in Producers, requestId \in RequestIDs, ok \in BOOLEAN :
        LET req == CloseProducerRequest(p, requestId) IN
        /\ ConnSend(req, ok)
        /\ Step(t, "ret", "closeProducer", [p |-> p, requestId |-> requestId],
                0, req,
                IF ok THEN <<Called("send", ok, NoReply),
                             Called("recv", FALSE, NoReply)>>
                ELSE <<Called("send", ok, NoReply)>>,
                Wrap(TransportErr, "failed to send closeProducer command"),
                NoResult)
    /\ calls' = calls + 1
    /\ UNCHANGED <<prodVars, drawn, granted>>

\* CloseProducer that also clears the session's name
CloseProducerClearsName(t) ==
    /\ CanCall(t)
    /\ \E p \in Producers, requestId \in RequestIDs, ok \in BOOLEAN :
        LET req == CloseProducerRequest(p, requestId) IN
        /\ ConnSend(req, ok)
        /\ Step(t, "ret", "closeProducer", [p |-> p, requestId |-> requestId],
                0, req, <<Called("send", ok, NoReply)>>,
                IF ok THEN NilErr
                ELSE Wrap(TransportErr,
                          "failed to send closeProducer command"),
                NoResult)
        /\ Name' = [Name EXCEPT ![p] = ""]
    /\ calls' = calls + 1
    /\ UNCHANGED <<SequenceID, Topic, ID, drawn, granted>>

\* ------------------------------------------------- Producer.CloseProducer
\* producer.go:171-186
CloseProducer(t) ==
    /\ CanCall(t)
    /\ \E p \in Producers, requestId \in RequestIDs, ok \in BOOLEAN :
        LET req == CloseProducerRequest(p, requestId) IN
        /\ ConnSend(req, ok)
        /\ Step(t, "ret", "closeProducer", [p |-> p, requestId |-> requestId],
                0, req, <<Called("send", ok, NoReply)>>,
                IF ok THEN NilErr
                ELSE Wrap(TransportErr,
                          "failed to send closeProducer command"),
                NoResult)
    /\ calls' = calls + 1
    /\ UNCHANGED <<prodVars, drawn, granted>>

\* ------------------------------------------------- Consumer.Subscribe
\* consumer.go:19-23  Subscribe returns when the lookup failed
SubscribeAfterLookup(ok) == IF ok THEN "sub_send" ELSE "ret"

\* consumer.go:16-23  client.LookupTopic(topic, requestId, false)
SubscribeLookup(t) ==
    /\ CanCall(t)
    /\ \E subType \in SubTypes, consumerId \in ConsumerIDs,
          requestId \in RequestIDs, ok \in BOOLEAN :
        Step(t, SubscribeAfterLookup(ok), "subscribe",
             [p |-> 0, topic |-> "T", subscription |-> "S",
              subType |-> subType, consumerId |-> consumerId,
              requestId |-> requestId],
             0, NoRequest, <<Called("lookup", ok, NoReply)>>,
             IF ok THEN NilErr
             ELSE Wrap(LookupErr, "failed to request lookup command"),
             NoResult)
    /\ calls' = calls + 1
    /\ UNCHANGED <<prodVars, connVars, drawn, granted>>

\* consumer.go:25-40  client.Send of the subscribe command
SubscribeSend(t) ==
    /\ At(t, "sub_send")
    /\ \E ok \in BOOLEAN :
        LET a == arg[t]
            req == SubscribeRequest(a.topic, a.subscription, a.subType,
                                    a.consumerId, a.requestId)
        IN /\ ConnSend(req, ok)
           /\ Continue(t, "ret", req, Called("send", ok, NoReply),
                       IF ok THEN NilErr
                       ELSE Wrap(TransportErr,
                                 "failed to send subscribe command"),
                       NoResult)
    /\ UNCHANGED <<prodVars, drawn, granted, calls>>

\* ------------------------------------------------- Consumer.Flow
\* consumer.go:43-59
Flow(t) ==
    /\ CanCall(t)
    /\ \E consumerId \in ConsumerIDs, messagePermits \in Permits,
          ok \in BOOLEAN :
        LET req == FlowRequest(consumerId, messagePermits) IN
        /\ ConnSend(req, ok)
        /\ Step(t, "ret", "flow",
                [p |-> 0, consumerId |-> consumerId,
                 messagePermits |-> messagePermits],
                0, req, <<Called("send", ok, NoReply)>>,
                IF ok THEN NilErr
                ELSE Wrap(TransportErr, "failed to request flow command"),
                NoResult)
    /\ calls' = calls + 1
    /\ UNCHANGED <<prodVars, drawn, granted>>

\* ------------------------------------------------- Consumer.ReceiveMessage
\* consumer.go:61-76
ReceiveMessage(t) ==
    /\ CanCall(t)
    /\ \E ok \in BOOLEAN :
        /\ CanReceive(ok)
        /\ ConnReceive(ok)
        /\ Step(t, "ret", "receiveMessage", [p |-> 0], 0, NoRequest,
                <<Called("recv", ok, Received(ok))>>,
                IF ok THEN NilErr
                ELSE Wrap(TransportErr, "failed to receive message command"),
                IF ok THEN NewMessage(Received(ok)) ELSE NoResult)
    /\ calls' = calls + 1
    /\ UNCHANGED <<prodVars, drawn, granted>>

\* ------------------------------------------------- Consumer.SendAck
\* consumer.go:78-98
SendAck(t) ==
    /\ CanCall(t)
    /\ \E consumerId \in ConsumerIDs, ackType \in AckTypes, ok \in BOOLEAN :
        LET req == AckRequest(consumerId, ackType) IN
        /\ ConnSend(req, ok)
        /\ Step(t, "ret", "sendAck",
                [p |-> 0, consumerId |-> consumerId, ackType |-> ackType],
                0, req, <<Called("send", ok, NoReply)>>,
                IF ok THEN NilErr
                ELSE Wrap(TransportErr, "failed to send ack command"),
                NoResult)
    /\ calls' = calls + 1
    /\ UNCHANGED <<prodVars, drawn, granted>>

\* ------------------------------------------------- Consumer.CloseConsumer
\* consumer.go:100-116
CloseConsumer(t) ==
    /\ CanCall(t)
    /\ \E consumerId \in ConsumerIDs, requestId \in RequestIDs,
          ok \in BOOLEAN :
        LET req == CloseConsumerRequest(consumerId, requestId) IN
        /\ ConnSend(req, ok)
        /\ Step(t, "ret", "closeConsumer",
                [p |-> 0, consumerId |-> consumerId, requestId |-> requestId],
                0, req, <<Called("send", ok, NoReply)>>,
                IF ok THEN NilErr
                ELSE Wrap(TransportErr,
                          "failed to send closeConsumer command"),
                NoResult)
    /\ calls' = calls + 1
    /\ UNCHANGED <<prodVars, drawn, granted>>

\* ------------------------------------------------- return
\* the caller takes the results; the thread is free for its next call
Return(t) ==
    /\ pc[t] = "ret"
    /\ Step(t, "idle", "none", NoArg, 0, NoRequest, << >>, NilErr, NoResult)
    /\ UNCHANGED <<prodVars, connVars, drawn, granted, calls>>

\* ------------------------------------------------- broker
\* The broker pushes a message to the consumer against one flow credit.
BrokerPush ==
    /\ \A u \in Threads : pc[u] # "ret"
    /\ \E c \in ConsumerIDs :
        /\ credits[c] > 0
        /\ credits' = [credits EXCEPT ![c] = @ - 1]
        /\ replies' = Append(replies,
                             [kind |-> "MESSAGE", name |-> "", payload |-> "m"])
    /\ UNCHANGED <<prodVars, handed, flows, pc, op, arg, sequenceID, request, trace,
                   err, result, drawn, granted, calls>>

\* ------------------------------------------------- specification
\* producer.go:188-196  NewProducer: counter 0, no name; consumer.go:118-124
Init ==
    /\ SequenceID = [p \in Producers |-> 0]
    /\ Name = [p \in Producers |-> ""]
    /\ Topic = [p \in Producers |-> "T"]
    /\ ID = [p \in Producers |-> p]
    /\ handed = [p \in Producers |-> << >>]
    /\ flows = [c \in ConsumerIDs |-> 0]
    /\ replies = << >>
    /\ credits = [c \in ConsumerIDs |-> 0]
    /\ pc = [t \in Threads |-> "idle"]
    /\ op = [t \in Threads |-> "none"]
    /\ arg = [t \in Threads |-> NoArg]
    /\ sequenceID = [t \in Threads |-> 0]
    /\ request = [t \in Threads |-> NoRequest]
    /\ trace = [t \in Threads |-> << >>]
    /\ err = [t \in Threads |-> NilErr]
    /\ result = [t \in Threads |-> NoResult]
    /\ drawn = [p \in Producers |-> << >>]
    /\ granted = [p \in Producers |-> << >>]
    /\ calls = 0

Next ==
    \/ \E t \in Threads : CreateProducerLookup(t)
    \/ \E t \in Threads : CreateProducerSend(t)
    \/ \E t \in Threads : ReceiveProducerSuccess(t)
    \/ \E t \in Threads : SendSendDraw(t)
    \/ \E t \in Threads : SendSendConn(t)
    \/ \E t \in Threads : SendBatchSendDraw(t)
    \/ \E t \in Threads : SendBatchSendConn(t)
    \/ \E t \in Threads : ReceiveSendReceipt(t)
    \/ \E t \in Threads : CloseProducer(t)
    \/ \E t \in Threads : SubscribeLookup(t)
    \/ \E t \in Threads : SubscribeSend(t)
    \/ \E t \in Threads : Flow(t)
    \/ \E t \in Threads : ReceiveMessage(t)
    \/ \E t \in Threads : SendAck(t)
    \/ \E t \in Threads : CloseConsumer(t)
    \/ \E t \in Threads : Return(t)
    \/ BrokerPush

Spec == Init /\ [][Next]_vars

\* ======================================================== properties
\* the connection calls of one kind a call has made
NumCalled(tr, call) == Cardinality({i \in 1 .. Len(tr) : tr[i].call = call})
CallsOf(tr) == [i \in 1 .. Len(tr) |-> tr[i].call]
LastCalled(tr) == tr[Len(tr)]
Sending(t) == op[t] \in {"send", "sendBatch"}
Returned(t, o) == pc[t] = "ret" /\ op[t] = o

\* C1: on every session the IDs drawn by the N send and sendBatch calls made
\* so far are exactly 0 .. N-1, each once, and two calls on one session never
\* hold the same ID, whatever the interleaving of the callers.
C1_SequenceIDsContiguous ==
    /\ \A p \in Producers :
        LET n == Len(drawn[p]) IN
        /\ {drawn[p][i] : i \in 1 .. n} = 0 .. (n - 1)
        /\ \A i, j \in 1 .. n : drawn[p][i] = drawn[p][j] => i = j
    /\ \A t \in Threads :
        Sending(t) =>
            /\ \E i \in 1 .. Len(drawn[arg[t].p]) :
                   drawn[arg[t].p][i] = sequenceID[t]
            /\ request[t].sequenceId = sequenceID[t]
    /\ \A t, u \in Threads :
        (t # u /\ Sending(t) /\ Sending(u) /\ arg[t].p = arg[u].p)
            => sequenceID[t] # sequenceID[u]

\* two callers are inside a send on a fresh session at once; one holds 0 and
\* the other 1
C1_Witness ==
    \E t, u \in Threads :
        /\ t # u
        /\ pc[t] = "send_conn" /\ pc[u] = "send_conn"
        /\ arg[t].p = arg[u].p
        /\ Len(drawn[arg[t].p]) = 2
        /\ sequenceID[t] = 0 /\ sequenceID[u] = 1

\* C2: the step in which open finishes its receive stores the reply's name
\* exactly when the reply is a producer success; on another kind it returns
\* a protocol error naming that kind, on a failed receive it returns an
\* error, and in both cases the name is left as it was.  No other step
\* changes a session's name.
C2_OpenStoresNameOnlyOnSuccess ==
    [][/\ \A t \in Threads :
            (pc[t] = "open_recv" /\ pc'[t] = "ret") =>
                LET p == arg[t].p
                    last == LastCalled(trace'[t])
                IN /\ last.call = "recv"
                   /\ (last.ok /\ last.res.kind = "PRODUCER_SUCCESS") =>
                          /\ err'[t] = NilErr
                          /\ Name'[p] = last.res.name
                   /\ (last.ok /\ last.res.kind # "PRODUCER_SUCCESS") =>
                          /\ err'[t].class = "protocol"
                          /\ err'[t].kind = last.res.kind
                          /\ Name'[p] = Name[p]
                   /\ ~last.ok =>
                          /\ err'[t].class = "transport"
                          /\ Name'[p] = Name[p]
       /\ \A p \in Producers :
            Name'[p] # Name[p] =>
                \E t \in Threads :
                    /\ pc[t] = "open_recv" /\ pc'[t] = "ret" /\ arg[t].p = p
                    /\ LastCalled(trace'[t]).ok
                    /\ LastCalled(trace'[t]).res.kind = "PRODUCER_SUCCESS"
      ]_vars

\* an open whose receive yielded a send receipt has returned the protocol
\* error naming it, and the session still has no name
C2_Witness ==
    \E t \in Threads :
        /\ Returned(t, "open")
        /\ err[t].class = "protocol" /\ err[t].kind = "SEND_RECEIPT"
        /\ Name[arg[t].p] = ""

\* C3: in the request a sendBatch call builds and hands to the connection,
\* the command's message count, the metadata's batch message count and the
\* number of batch entries all equal the length of the batch passed in.
C3_BatchCountsEqualLength ==
    \A t \in Threads :
        (op[t] = "sendBatch" /\ pc[t] \in {"batch_conn", "ret"}) =>
            LET k == Len(arg[t].batchMessage.items) IN
            /\ request[t].numMessages = k
            /\ request[t].meta.numMessagesInBatch = k
            /\ Len(request[t].batch.items) = k

\* a batch of two entries was handed to the connection
C3_Witness ==
    \E t \in Threads :
        /\ Returned(t, "sendBatch")
        /\ Len(arg[t].batchMessage.items) = 2
        /\ NumCalled(trace[t], "send") = 1
        /\ request[t].numMessages = 2

\* C4: a returned closeProducer or closeConsumer call has made exactly one
\* send and no receive on the connection, whether the send failed or not.
C4_CloseOneSendNoReceive ==
    \A t \in Threads :
        (pc[t] = "ret" /\ op[t] \in {"closeProducer", "closeConsumer"}) =>
            /\ NumCalled(trace[t], "send") = 1
            /\ NumCalled(trace[t], "recv") = 0
            /\ Len(trace[t]) = 1

\* a closeProducer whose command was delivered has returned while a reply is
\* still pending on the connection
C4_Witness ==
    \E t \in Threads :
        /\ Returned(t, "closeProducer")
        /\ err[t] = NilErr
        /\ trace[t][1].ok
        /\ replies # << >>

\* C5: the subscribe command handed to the connection carries the
\* subscription type the caller passed, and the command of a call that
\* differs only in the type differs from it in that field and in no other.
C5_SubscribeCarriesCallerType ==
    \A t \in Threads :
        (op[t] = "subscribe" /\ request[t].cmd = "SUBSCRIBE") =>
            LET a == arg[t] IN
            /\ request[t].subType = a.subType
            /\ \A b \in SubTypes \ {a.subType} :
                LET other == SubscribeRequest(a.topic, a.subscription, b,
                                              a.consumerId, a.requestId)
                IN /\ other.subType = b
                   /\ [other EXCEPT !.subType = a.subType] = request[t]

\* C6: no operation retries.  Within a call a failed connection call is the
\* last one made, no connection call is made twice, and a call whose last
\* connection call failed returns that failure as its error.
C6_NoRetryAfterFailure ==
    \A t \in Threads :
        LET tr == trace[t] IN
        /\ \A i \in 1 .. Len(tr) : ~tr[i].ok => i = Len(tr)
        /\ \A i, j \in 1 .. Len(tr) : tr[i].call = tr[j].call => i = j
        /\ (tr # << >> /\ ~LastCalled(tr).ok) =>
               /\ pc[t] = "ret"
               /\ err[t].class =
                      (IF LastCalled(tr).call = "lookup" THEN "lookup"
                       ELSE "transport")
               /\ err[t].msg # ""

\* an open has returned the failure of its receive, after one lookup, one
\* send and that one receive
C6_Witness ==
    \E t \in Threads :
        /\ Returned(t, "open")
        /\ CallsOf(trace[t]) = <<"lookup", "send", "recv">>
        /\ ~trace[t][3].ok
        /\ err[t].class = "transport"

\* C7: an open makes its connection calls in the order lookup, send,
\* receive; the send follows a successful lookup and the receive a delivered
\* send, so a returned open has made one receive if its send was delivered
\* and none otherwise.
C7_OpenOrder ==
    \A t \in Threads :
        op[t] = "open" =>
            LET tr == trace[t]
                order == <<"lookup", "send", "recv">>
            IN /\ Len(tr) \in 1 .. 3
               /\ \A i \in 1 .. Len(tr) : tr[i].call = order[i]
               /\ \A i \in 1 .. Len(tr) - 1 : tr[i].ok
               /\ pc[t] = "ret" =>
                      NumCalled(tr, "recv") =
                          (IF Len(tr) >= 2 /\ tr[2].ok THEN 1 ELSE 0)

\* an open has returned after a lookup, a delivered send and one receive
\* that yielded a producer success
C7_Witness ==
    \E t \in Threads :
        /\ Returned(t, "open")
        /\ err[t] = NilErr
        /\ CallsOf(trace[t]) = <<"lookup", "send", "recv">>
        /\ Name[arg[t].p] \in Names

\* C8: an open or a subscribe whose lookup failed has returned the lookup
\* error, having made that one lookup and no other connection call and
\* having built no command.
C8_LookupFailureSendsNothing ==
    \A t \in Threads :
        (op[t] \in {"open", "subscribe"} /\ ~trace[t][1].ok) =>
            /\ pc[t] = "ret"
            /\ CallsOf(trace[t]) = <<"lookup">>
            /\ err[t].class = "lookup"
            /\ request[t] = NoRequest

\* a subscribe has returned the failure of its lookup
C8_Witness ==
    \E t \in Threads :
        /\ Returned(t, "subscribe")
        /\ ~trace[t][1].ok
        /\ err[t].class = "lookup"

\* C9: a returned send or sendBatch call has handed exactly one request to
\* the connection, a send command with its metadata and its payload or
\* batch, and made no receive; a returned receiveSendReceipt call has made
\* exactly one receive and no send.
C9_SendOneRequestNoReceive ==
    \A t \in Threads :
        /\ (pc[t] = "ret" /\ Sending(t)) =>
               /\ CallsOf(trace[t]) = <<"send">>
               /\ request[t].cmd = "SEND"
               /\ request[t].meta.sequenceId = sequenceID[t]
               /\ Cardinality({i \in 1 .. Len(handed[arg[t].p]) :
                      handed[arg[t].p][i] = sequenceID[t]}) = 1
        /\ Returned(t, "receiveSendReceipt") =>
               /\ CallsOf(trace[t]) = <<"recv">>
               /\ request[t] = NoRequest

\* a send has returned with its request delivered, and its receipt is still
\* pending on the connection
C9_Witness ==
    \E t \in Threads :
        /\ Returned(t, "send")
        /\ err[t] = NilErr
        /\ \E i \in 1 .. Len(replies) : replies[i].kind = "SEND_RECEIPT"

\* C10: a receiveMessage call returns a message only if a flow command was
\* handed to the connection before, and receiveMessage, sendAck and
\* subscribe hand no flow command to the connection.
C10_MessageOnlyAfterFlow ==
    /\ \A t \in Threads :
        (Returned(t, "receiveMessage") /\ err[t] = NilErr
             /\ result[t].tag = "message")
            => \E c \in ConsumerIDs : flows[c] > 0
    /\ \A t \in Threads :
        op[t] \in {"receiveMessage", "sendAck", "subscribe"} =>
            request[t].cmd # "FLOW"

\* C11 (as stated): once a successful open has stored a name, the session's
\* name stays that first name, whatever is called later.
C11_NameWrittenAtMostOnce ==
    \A p \in Producers :
        granted[p] # << >> => Name[p] = granted[p][1]

\* C11 (amended): every successful open stores the name its reply carries,
\* so a session's name is the name of the latest producer success an open
\* on it received, and is unset while there was none; nothing else writes it.
C11_NameIsLatestGranted ==
    \A p \in Producers :
        Name[p] = IF granted[p] = << >> THEN ""
                  ELSE granted[p][Len(granted[p])]

\* a second successful open on a session has replaced the name "p-1" by "p-2"
C11_Witness ==
    \E t \in Threads :
        /\ Returned(t, "open")
        /\ err[t] = NilErr
        /\ granted[arg[t].p] = <<"p-1", "p-2">>
        /\ Name[arg[t].p] = "p-2"

\* C12: a receiveMessage call whose receive yielded a reply that is no
\* message returns a protocol error and no message value.
C12_ReceiveMessageRejectsOtherKinds ==
    \A t \in Threads :
        (Returned(t, "receiveMessage") /\ trace[t][1].ok
             /\ trace[t][1].res.kind # "MESSAGE") =>
            /\ err[t].class = "protocol"
            /\ result[t] = NoResult

\* C13: a returned receiveSendReceipt call has an error exactly when its
\* receive failed, and that error is the transport error; when the receive
\* yielded a reply, of whatever kind, it returns a receipt value and no error.
C13_ReceiptKindNotValidated ==
    \A t \in Threads :
        Returned(t, "receiveSendReceipt") =>
            /\ trace[t][1].ok => (err[t] = NilErr /\ result[t].tag = "receipt")
            /\ ~trace[t][1].ok =>
                   (err[t].class = "transport" /\ result[t] = NoResult)

\* a receiveSendReceipt call has returned without error on a producer
\* success reply
C13_Witness ==
    \E t \in Threads :
        /\ Returned(t, "receiveSendReceipt")
        /\ trace[t][1].ok
        /\ trace[t][1].res.kind = "PRODUCER_SUCCESS"
        /\ err[t] = NilErr

\* C14: on every session the send requests reach the connection in strictly
\* increasing sequence-ID order, whatever the interleaving of the callers.
C14_HandedInIncreasingOrder ==
    \A p \in Producers :
        \A i, j \in 1 .. Len(handed[p]) :
            i < j => handed[p][i] < handed[p][j]

\* C15: every send request has exactly one of payload and batch populated:
\* a request of send has a payload and no batch, a request of sendBatch a
\* batch and no payload, for every input.
C15_ExactlyOnePopulated ==
    \A t \in Threads :
        /\ (Sending(t) /\ op[t] = "send") =>
               (request[t].payload # "" /\ request[t].batch.isNil)
        /\ (Sending(t) /\ op[t] = "sendBatch") =>
               (request[t].payload = "" /\ ~request[t].batch.isNil)

\* C16: a send or sendBatch call is never rejected for the state of its
\* session: with or without a successful open before it, it draws an ID and
\* hands exactly one send request to the connection, failing only when the
\* connection's send fails; the request's metadata carries the session's
\* current name, which is unset when no open succeeded and otherwise the name
\* stored by the latest successful open.
C16_SendCarriesCurrentName ==
    \A t \in Threads :
        Sending(t) =>
            LET p == arg[t].p IN
            /\ request[t].cmd = "SEND"
            /\ request[t].meta.producerName = Name[p]
            /\ granted[p] = << >> => request[t].meta.producerName = ""
            /\ granted[p] # << >> =>
                   request[t].meta.producerName = granted[p][Len(granted[p])]
            /\ pc[t] = "ret" =>
                   /\ CallsOf(trace[t]) = <<"send">>
                   /\ err[t] = NilErr <=> trace[t][1].ok
                   /\ \E i \in 1 .. Len(handed[p]) :
                          handed[p][i] = sequenceID[t]

\* a send on a session that was never opened has returned without error: its
\* request reached the connection with the name unset
C16_Witness ==
    \E t \in Threads :
        /\ Returned(t, "send")
        /\ err[t] = NilErr
        /\ granted[arg[t].p] = << >>
        /\ request[t].meta.producerName = ""
        /\ handed[arg[t].p] = <<0>>

\* C17: the counters are per session: a draw on one session advances that
\* session's counter by one and leaves every other session's counter
\* unchanged, and the k-th draw on a session yields k-1 whatever was drawn on
\* the other sessions.
C17_CountersPerSession ==
    [][\A p \in Producers :
           SequenceID'[p] # SequenceID[p] =>
               /\ SequenceID'[p] = SequenceID[p] + 1
               /\ drawn'[p] = Append(drawn[p], Len(drawn[p]))
               /\ \A q \in Producers \ {p} :
                      /\ SequenceID'[q] = SequenceID[q]
                      /\ drawn'[q] = drawn[q]]_vars

\* two callers are inside sends on different sessions, after an earlier draw
\* on the first session: the first session is at its second ID, the other at
\* its first
C17_Witness ==
    \E t, u \in Threads :
        /\ Sending(t) /\ Sending(u)
        /\ arg[t].p # arg[u].p
        /\ pc[t] \in {"send_conn", "batch_conn"}
        /\ pc[u] \in {"send_conn", "batch_conn"}
        /\ sequenceID[t] = 1 /\ sequenceID[u] = 0
        /\ drawn[arg[t].p] = <<0, 1>> /\ drawn[arg[u].p] = <<0>>

\* C18: a session's counter equals the number of send and sendBatch calls
\* that have drawn on it, whether their sends then failed or not and whatever
\* else was called; the IDs held by calls and handed to the connection are
\* all below the counter.
C18_CounterCountsDraws ==
    \A p \in Producers :
        /\ SequenceID[p] = Len(drawn[p])
        /\ \A i \in 1 .. Len(handed[p]) : handed[p][i] < SequenceID[p]
        /\ \A t \in Threads :
               (Sending(t) /\ arg[t].p = p) => sequenceID[t] < SequenceID[p]

\* the first send on a session failed at the connection (no receipt was
\* queued); the next send on the session has drawn ID 1, not 0 again
C18_Witness ==
    \E t \in Threads :
        /\ pc[t] = "send_conn"
        /\ sequenceID[t] = 1
        /\ SequenceID[arg[t].p] = 2
        /\ handed[arg[t].p] = <<0>>
        /\ replies = << >>
        /\ calls = 2

\* C19: in every send request built by send or sendBatch the metadata's
\* sequence ID equals the command's, both are the ID the call drew, and the
\* command's producer ID is the session's.
C19_MetaMatchesCommand ==
    \A t \in Threads :
        Sending(t) =>
            /\ request[t].meta.sequenceId = request[t].sequenceId
            /\ request[t].sequenceId = sequenceID[t]
            /\ request[t].producerId = ID[arg[t].p]

\* two concurrent calls on one session, a send and a sendBatch, hold requests
\* with IDs 0 and 1
C19_Witness ==
    \E t, u \in Threads :
        /\ pc[t] = "send_conn" /\ pc[u] = "batch_conn"
        /\ arg[t].p = arg[u].p
        /\ request[t].meta.sequenceId + request[u].meta.sequenceId = 1

\* C20: no step changes a session's producer ID or topic; a step of send,
\* sendBatch, receiveSendReceipt or closeProducer leaves the name unchanged,
\* and the name changes only in the step in which an open returns without
\* error.
C20_OnlyOpenWritesName ==
    [][/\ ID' = ID
       /\ Topic' = Topic
       /\ \A t \in Threads :
              (pc'[t] # pc[t]
                   /\ op'[t] \in {"send", "sendBatch", "receiveSendReceipt",
                                  "closeProducer"})
                  => Name' = Name
       /\ \A p \in Producers :
              Name'[p] # Name[p] =>
                  \E t \in Threads :
                      /\ pc[t] = "open_recv" /\ pc'[t] = "ret"
                      /\ arg[t].p = p
                      /\ err'[t] = NilErr]_vars

\* a closeProducer call has returned on an opened session, which still has
\* the name the open stored
C20_Witness ==
    \E t \in Threads :
        /\ Returned(t, "closeProducer")
        /\ granted[arg[t].p] # << >>
        /\ Name[arg[t].p] \in Names

====
